---- MODULE Spec2Model ----
(***************************************************************************)
(* Model of src/app/page.tsx (AdvancedTextEditor).                         *)
(*                                                                         *)
(* Two specifications share the variables:                                 *)
(*   Spec        the editor: text, style ranges, selection, history        *)
(*               (handleTextChange, handleTextSelection,                   *)
(*               applyStyleToSelection, removeStyledRange,                 *)
(*               updateStyledRange, undo, redo, loadFile, the style        *)
(*               controls and the edit toggle);                            *)
(*   HistorySpec the history alone, grown to its limit of 50 entries:      *)
(*               typing one character at a time, undo and redo;            *)
(*   LayoutSpec  the layout pass of renderTextOnCanvas:                    *)
(*               wrapStyledSegments run one forEach iteration at a time    *)
(*               over an input segment sequence, then the placement of     *)
(*               every line (the x-offsets the drawing loops use);         *)
(*   RenderSpec  the whole of renderTextOnCanvas on shorter inputs, in     *)
(*               either mode: the layout pass, then the bounding-box scan  *)
(*               of the pixels drawn and the sizing of the output canvas.  *)
(*                                                                         *)
(* Positions and indices are 0-based as in the source; a sequence s of     *)
(* the source is a TLA+ sequence, so s[i] of the source is s[i + 1] here.  *)
(* Texts are sequences of one-character strings.                           *)
(***************************************************************************)
EXTENDS Integers, Sequences, FiniteSets, TLC

VARIABLES
    text,              \* useState text (line 93)
    textAlign,         \* useState textAlign, the document alignment (line 104)
    fontSize,          \* useState fontSize (line 96)
    styledRanges,      \* useState styledRanges (line 110)
    selectedRange,     \* useState selectedRange (line 111), NULL or [start, end]
    editingRangeId,    \* useState editingRangeId (line 112), NULL or an id
    history,           \* useState history (line 128)
    historyIndex,      \* useState historyIndex (line 129)
    clock,             \* Date.now() of the last style application (line 240)
    segments,          \* wrapStyledSegments: the input segments
    targetWidth,       \* wrapStyledSegments: targetWidth
    pos,               \* number of segments the forEach has consumed
    lines,             \* wrapStyledSegments: lines
    currentLineSegments,
    currentLineMetricsWidth,
    currentLineMaxHeight,
    currentLineSpaces,
    currentLineEffectiveAlignment,
    placed,            \* renderTextOnCanvas: per line, the x-offsets drawn at
    currentY,          \* renderTextOnCanvas: currentY
    pc,                \* "idle" | "wrap" | "draw" | "done" | "scanned" | "rendered"
    forExport,         \* renderTextOnCanvas: forExport
    pixels,            \* the non-transparent pixels <<column, row>> of offscreenCanvas
    canvas             \* the output canvas: NULL until it is sized and drawn

vars == <<text, textAlign, fontSize, styledRanges, selectedRange, editingRangeId,
          history, historyIndex, clock, segments, targetWidth, pos, lines,
          currentLineSegments, currentLineMetricsWidth, currentLineMaxHeight,
          currentLineSpaces, currentLineEffectiveAlignment, placed, currentY, pc,
          forExport, pixels, canvas>>

editorVars == <<text, textAlign, fontSize, styledRanges, selectedRange,
                editingRangeId, history, historyIndex, clock>>

layoutVars == <<segments, targetWidth, pos, lines, currentLineSegments,
                currentLineMetricsWidth, currentLineMaxHeight, currentLineSpaces,
                currentLineEffectiveAlignment, placed, currentY, pc,
                forExport, pixels, canvas>>

outputVars == <<forExport, pixels, canvas>>

(***************************************************************************)
(* Bounds of the model.                                                    *)
(***************************************************************************)
\* longest text the editor model types or loads
MaxLen == 2
\* most entries the history grows to in the editor model
MaxHistory == 3
\* most style applications (values of Date.now()) in the editor model
MaxClock == 2
\* longest text typed, one character at a time, in the history model
MaxTyped == 53
\* longest segment sequence laid out
MaxSegs == 3
\* longest segment sequence rendered to an output canvas
MaxRenderSegs == 2

\* null of a nullable object (selectedRange, the result of find)
NULL == [null |-> TRUE]
\* null of the nullable string editingRangeId
NullId == "null"

\* characters of the editor's texts
Chars == {"a"}
Aligns == {"left", "center", "right", "justify"}
\* alignments the editor model's controls are clicked to
EditorAligns == {"left", "justify"}
\* document alignments the layout model starts from
DocAligns == {"left", "justify"}
\* advance widths the metrics provider returns in the layout model
Widths == {1, 2}
\* target widths laid out: narrower than a wide character, and wider
TargetWidths == {1, 3}
\* styles of laid-out segments: every alignment, two font sizes; a line of
\* size 14 is 21 pixels high, a line of size 15 is 22.5
SegStyles == {[fontSize |-> 14, textAlign |-> "left"],
              [fontSize |-> 15, textAlign |-> "center"],
              [fontSize |-> 14, textAlign |-> "right"],
              [fontSize |-> 15, textAlign |-> "justify"]}

Min(a, b) == IF a < b THEN a ELSE b
Max(a, b) == IF a > b THEN a ELSE b

\* all sequences over S of length 0..n
SeqsUpTo(S, n) == UNION {[1..k -> S] : k \in 0..n}

Texts == SeqsUpTo(Chars, MaxLen)

(***************************************************************************)
(* The editor.                                                             *)
(***************************************************************************)

\* String.prototype.slice(start, end) for 0 <= start, 0 <= end
Slice(s, start, end) ==
    LET e == Min(end, Len(s))
    IN  IF start >= e THEN <<>> ELSE SubSeq(s, start + 1, e)

\* Array.prototype.slice(0, n)
Take(s, n) == SubSeq(s, 1, Min(n, Len(s)))

\* getDefaultStyle (lines 179-191): the current values of the style controls.
\* Of the nine fields the layout reads fontSize (line height) and textAlign;
\* the others only reach the metrics provider and the canvas. The editor
\* model changes styles through the alignment buttons alone; the other
\* controls go through the same two paths (setState or updateStyledRange).
getDefaultStyle == [fontSize |-> fontSize, textAlign |-> textAlign]

\* find with the end of a range taken as part of it
RECURSIVE FindRangeInclusiveEnd(_, _)
FindRangeInclusiveEnd(ranges, position) ==
    IF ranges = <<>> THEN NULL
    ELSE IF position >= Head(ranges).start /\ position <= Head(ranges).end
         THEN Head(ranges)
         ELSE FindRangeInclusiveEnd(Tail(ranges), position)

\* Array.prototype.find with the predicate of line 195, first match in
\* stored order
RECURSIVE FindRange(_, _)
FindRange(ranges, position) ==
    IF ranges = <<>> THEN NULL
    ELSE IF position >= Head(ranges).start /\ position < Head(ranges).end
         THEN Head(ranges)
         ELSE FindRange(Tail(ranges), position)

getStyleForPosition(position) ==
    LET applicableRange == FindRange(styledRanges, position)
    IN  IF applicableRange # NULL THEN applicableRange.style ELSE getDefaultStyle

\* React flushes the mount effect (lines 688-694) before it handles any event,
\* so no handler runs while the effect is pending.
EffectPending == Len(history) = 0

\* useEffect (lines 688-694): the initial history entry
InitialHistoryEffect ==
    /\ Len(history) = 0
    /\ history' = <<[text |-> <<>>, styledRanges |-> <<>>]>>
    /\ historyIndex' = 0
    /\ UNCHANGED <<text, textAlign, fontSize, styledRanges, selectedRange,
                   editingRangeId, clock>>
    /\ UNCHANGED layoutVars

\* the history handleTextChange builds (lines 205-218); cursorPosition and
\* timestamp are stored but never decide anything and are left out
HistoryLimit == 50

\* the history built without dropping the oldest entry
PushHistoryUnlimited(newText) ==
    Append(Take(history, historyIndex + 1),
           [text |-> newText, styledRanges |-> styledRanges])

PushHistory(newText) ==
    LET newEntry == [text |-> newText, styledRanges |-> styledRanges]
        newHistory == Append(Take(history, historyIndex + 1), newEntry)
    IN  IF Len(newHistory) > HistoryLimit THEN Tail(newHistory) ELSE newHistory

\* handleTextChange (lines 201-222): the textarea's onChange, and the tail of
\* cutText (line 318) and pasteText (line 337), each with the text it computed.
\* The model stops changing the text once the history would pass MaxHistory
\* entries.
HandleTextChange(newText) ==
    /\ ~EffectPending
    /\ Len(Take(history, historyIndex + 1)) < MaxHistory
    /\ text' = newText
    /\ history' = PushHistory(newText)
    /\ historyIndex' = Len(PushHistory(newText)) - 1
    /\ UNCHANGED <<textAlign, fontSize, styledRanges, selectedRange,
                   editingRangeId, clock>>
    /\ UNCHANGED layoutVars

\* handleTextSelection (lines 224-233): start and end are the textarea's
\* selectionStart and selectionEnd, 0 <= start <= end <= the text's length
HandleTextSelection(start, end) ==
    /\ ~EffectPending
    /\ selectedRange' = IF start # end THEN [start |-> start, end |-> end] ELSE NULL
    /\ UNCHANGED <<text, textAlign, fontSize, styledRanges, editingRangeId,
                   history, historyIndex, clock>>
    /\ UNCHANGED layoutVars

\* the filter with the two ends compared to the wrong ends of the selection
FilteredRangesWrongEnds(ranges, sel) ==
    SelectSeq(ranges, LAMBDA range : range.end <= sel.end \/ range.start >= sel.start)

\* the filter dropping only the ranges that lie inside the selection
FilteredRangesContained(ranges, sel) ==
    SelectSeq(ranges, LAMBDA range : ~(range.start >= sel.start /\ range.end <= sel.end))

\* the filter of lines 248-250
FilteredRanges(ranges, sel) ==
    SelectSeq(ranges, LAMBDA range : range.end <= sel.start \/ range.start >= sel.end)

\* applyStyleToSelection (lines 235-254); the early return of line 236 leaves
\* every variable as it is. The id is Date.now() as a string: one tick of the
\* clock per application, at most MaxClock of them in the model.
ApplyStyleToSelection ==
    /\ ~EffectPending
    /\ clock < MaxClock
    /\ selectedRange # NULL
    /\ selectedRange.start # selectedRange.end
    /\ LET newRange == [id    |-> ToString(clock + 1),
                        start |-> selectedRange.start,
                        end   |-> selectedRange.end,
                        text  |-> Slice(text, selectedRange.start, selectedRange.end),
                        style |-> getDefaultStyle]
       IN  styledRanges' = Append(FilteredRanges(styledRanges, selectedRange), newRange)
    /\ clock' = clock + 1
    /\ selectedRange' = NULL
    /\ UNCHANGED <<text, textAlign, fontSize, editingRangeId, history, historyIndex>>
    /\ UNCHANGED layoutVars

RangeIds(ranges) == {ranges[i].id : i \in 1..Len(ranges)}

\* removeStyledRange (lines 256-259), from a range's delete button (line 892)
RemoveStyledRange(id) ==
    /\ ~EffectPending
    /\ styledRanges' = SelectSeq(styledRanges, LAMBDA range : range.id # id)
    /\ editingRangeId' = NullId
    /\ UNCHANGED <<text, textAlign, fontSize, selectedRange, history,
                   historyIndex, clock>>
    /\ UNCHANGED layoutVars

\* the map of lines 262-264; newStyle is a partial style, a function from
\* some field names to values
MergedRanges(ranges, id, newStyle) ==
    [i \in 1..Len(ranges) |->
        IF ranges[i].id = id
        THEN [ranges[i] EXCEPT !.style =
                 [f \in DOMAIN ranges[i].style |->
                     IF f \in DOMAIN newStyle THEN newStyle[f] ELSE ranges[i].style[f]]]
        ELSE ranges[i]]

\* updateStyledRange (lines 261-265)
updateStyledRange(id, newStyle) ==
    styledRanges' = MergedRanges(styledRanges, id, newStyle)

\* the alignment buttons of the style editor (lines 1131-1183)
ClickAlign(a) ==
    /\ ~EffectPending
    /\ IF editingRangeId # NullId
       THEN /\ updateStyledRange(editingRangeId, [textAlign |-> a])
            /\ UNCHANGED textAlign
       ELSE /\ textAlign' = a
            /\ UNCHANGED styledRanges
    /\ UNCHANGED <<text, fontSize, selectedRange, editingRangeId, history,
                   historyIndex, clock>>
    /\ UNCHANGED layoutVars

\* the Edit button of a listed range (line 888) and "done editing" (line 1194)
ToggleEdit(id) ==
    /\ ~EffectPending
    /\ editingRangeId' = IF editingRangeId = id THEN NullId ELSE id
    /\ UNCHANGED <<text, textAlign, fontSize, styledRanges, selectedRange,
                   history, historyIndex, clock>>
    /\ UNCHANGED layoutVars

\* undo (lines 267-282)
Undo ==
    /\ historyIndex > 0
    /\ LET newIndex == historyIndex - 1
           entry == history[newIndex + 1]
       IN  /\ text' = entry.text
           /\ styledRanges' = entry.styledRanges
           /\ historyIndex' = newIndex
    /\ UNCHANGED <<textAlign, fontSize, selectedRange, editingRangeId, history, clock>>
    /\ UNCHANGED layoutVars

\* redo (lines 284-299)
Redo ==
    /\ historyIndex < Len(history) - 1
    /\ LET newIndex == historyIndex + 1
           entry == history[newIndex + 1]
       IN  /\ text' = entry.text
           /\ styledRanges' = entry.styledRanges
           /\ historyIndex' = newIndex
    /\ UNCHANGED <<textAlign, fontSize, selectedRange, editingRangeId, history, clock>>
    /\ UNCHANGED layoutVars

\* loadFile (lines 361-373) with the reader's onload: handleTextChange(content)
\* and then setStyledRanges([]); the read completes before the next event
LoadFile(content) ==
    /\ ~EffectPending
    /\ Len(Take(history, historyIndex + 1)) < MaxHistory
    /\ text' = content
    /\ history' = PushHistory(content)
    /\ historyIndex' = Len(PushHistory(content)) - 1
    /\ styledRanges' = <<>>
    /\ UNCHANGED <<textAlign, fontSize, selectedRange, editingRangeId, clock>>
    /\ UNCHANGED layoutVars

\* the text the editor opens with (lines 93-95), shortened to the model's size
InitialText == <<"a", "a">>

LayoutIdle ==
    /\ segments = <<>>
    /\ targetWidth = 0
    /\ pos = 0
    /\ lines = <<>>
    /\ currentLineSegments = <<>>
    /\ currentLineMetricsWidth = 0
    /\ currentLineMaxHeight = 0
    /\ currentLineSpaces = 0
    /\ currentLineEffectiveAlignment = "left"
    /\ placed = <<>>
    /\ currentY = 0
    /\ pc = "idle"
    /\ forExport = FALSE
    /\ pixels = {}
    /\ canvas = NULL

\* the useState initial values (lines 93-129)
Init ==
    /\ text = InitialText
    /\ textAlign = "left"
    /\ fontSize = 14
    /\ styledRanges = <<>>
    /\ selectedRange = NULL
    /\ editingRangeId = NullId
    /\ history = <<>>
    /\ historyIndex = -1
    /\ clock = 0
    /\ LayoutIdle

Next ==
    \/ InitialHistoryEffect
    \/ \E newText \in Texts : HandleTextChange(newText)
    \/ \E start \in 0..Len(text) : \E end \in start..Len(text) :
           HandleTextSelection(start, end)
    \/ ApplyStyleToSelection
    \/ \E id \in RangeIds(styledRanges) : RemoveStyledRange(id)
    \/ \E a \in EditorAligns : ClickAlign(a)
    \/ \E id \in RangeIds(styledRanges) : ToggleEdit(id)
    \/ Undo
    \/ Redo
    \/ \E content \in Texts : LoadFile(content)

Spec == Init /\ [][Next]_vars

\* handleTextChange (lines 201-222) from the textarea's onChange (line 847)
\* with one character typed at the end of the text
TypeChar ==
    /\ ~EffectPending
    /\ Len(text) < MaxTyped
    /\ text' = Append(text, "a")
    /\ history' = PushHistory(Append(text, "a"))
    /\ historyIndex' = Len(PushHistory(Append(text, "a"))) - 1
    /\ UNCHANGED <<textAlign, fontSize, styledRanges, selectedRange,
                   editingRangeId, clock>>
    /\ UNCHANGED layoutVars

HistoryNext ==
    \/ InitialHistoryEffect
    \/ TypeChar
    \/ Undo
    \/ Redo

HistorySpec == Init /\ [][HistoryNext]_vars

(***************************************************************************)
(* The layout pass: wrapStyledSegments (lines 397-491), one forEach         *)
(* iteration per step, then the drawing loop of renderTextOnCanvas          *)
(* (lines 514-579).                                                         *)
(***************************************************************************)

\* useState lineHeight (line 100): 1.5, held in tenths, so that heights
\* (fontSize * lineHeight) are whole numbers of tenths of a pixel
lineHeight == 15

\* the segments getStyledSegments (lines 383-395) can hand over: a character,
\* the style resolved for its position (every style carries a textAlign,
\* line 189), and the width the metrics provider measured
SegmentSet ==
    {[char |-> c, style |-> st, width |-> w] :
        c \in {"a", " "}, st \in SegStyles, w \in Widths}
    \cup {[char |-> "\n", style |-> st, width |-> 1] : st \in SegStyles}

\* reduce((sum, s) => sum + s.width, 0) (lines 455, 464)
RECURSIVE SumWidth(_)
SumWidth(segs) ==
    IF segs = <<>> THEN 0 ELSE Head(segs).width + SumWidth(Tail(segs))

\* the reduce keeping the height of the last segment only
MaxHeightOfLast(segs) ==
    IF segs = <<>> THEN 0 ELSE segs[Len(segs)].style.fontSize * lineHeight

\* reduce((max, s) => Math.max(max, s.style.fontSize * lineHeight), 0)
\* (lines 456-459, 465)
RECURSIVE MaxHeightOf(_)
MaxHeightOf(segs) ==
    IF segs = <<>> THEN 0
    ELSE Max(MaxHeightOf(SubSeq(segs, 1, Len(segs) - 1)),
             segs[Len(segs)].style.fontSize * lineHeight)

\* filter((s) => s.char === " ").length (lines 460, 466)
CountSpaces(segs) == Len(SelectSeq(segs, LAMBDA sg : sg.char = " "))

\* the backward scan of lines 441-447 from index i
RECURSIVE ScanBack(_, _)
ScanBack(segs, i) ==
    IF i < 0 THEN -1
    ELSE IF segs[i + 1].char = " " THEN i ELSE ScanBack(segs, i - 1)

LastSpaceIndex(segs) == ScanBack(segs, Len(segs) - 1)

\* the slice that leaves the space out
KeptSegmentsBeforeSpace(segs, lastSpaceIndex) == Take(segs, lastSpaceIndex)

\* slice(0, lastSpaceIndex + 1) (line 452)
KeptSegments(segs, lastSpaceIndex) == Take(segs, lastSpaceIndex + 1)

\* the slice starting one segment late
SegmentsToMoveLate(segs, lastSpaceIndex) == SubSeq(segs, lastSpaceIndex + 3, Len(segs))

\* slice(lastSpaceIndex + 1) (line 451)
SegmentsToMove(segs, lastSpaceIndex) == SubSeq(segs, lastSpaceIndex + 2, Len(segs))

\* the LineData processLine pushes (lines 408-414)
LineData(segs, w, h, sp, al) ==
    [segments |-> segs, metricsWidth |-> w, maxHeight |-> h, spaces |-> sp,
     effectiveAlignment |-> al]

\* processLine pushing only an accumulator of several segments
ProcessLineOfSeveral(ls, segs, w, h, sp, al) ==
    IF Len(segs) > 1 THEN Append(ls, LineData(segs, w, h, sp, al)) ELSE ls

\* processLine pushing the accumulator whatever it holds
ProcessLineAlways(ls, segs, w, h, sp, al) ==
    Append(ls, LineData(segs, w, h, sp, al))

\* processLine (lines 406-421): the lines after it ran on an accumulator
ProcessLine(ls, segs, w, h, sp, al) ==
    IF Len(segs) > 0 THEN Append(ls, LineData(segs, w, h, sp, al)) ELSE ls

\* lines 428-430: the alignment of the accumulating line once the segment
\* has been looked at (style.textAlign is always set)
AlignmentAfter(segment) ==
    IF currentLineEffectiveAlignment = textAlign
    THEN segment.style.textAlign
    ELSE currentLineEffectiveAlignment

\* the test breaking already when the line would be exactly full
OverflowsWhenFull(segment) ==
    /\ currentLineMetricsWidth + segment.width >= targetWidth
    /\ Len(currentLineSegments) > 0

\* line 439
Overflows(segment) ==
    /\ currentLineMetricsWidth + segment.width > targetWidth
    /\ Len(currentLineSegments) > 0

\* lines 479-484: the segment appended to the accumulator (segs, w, h, sp, al)
AppendSegment(segs, w, h, sp, al, segment) ==
    /\ currentLineSegments' = Append(segs, segment)
    /\ currentLineMetricsWidth' = w + segment.width
    /\ currentLineMaxHeight' = Max(h, segment.style.fontSize * lineHeight)
    /\ currentLineSpaces' = sp + (IF segment.char = " " THEN 1 ELSE 0)
    /\ currentLineEffectiveAlignment' = al

\* lines 416-420: the accumulator processLine leaves
ResetLine ==
    /\ currentLineSegments' = <<>>
    /\ currentLineMetricsWidth' = 0
    /\ currentLineMaxHeight' = 0
    /\ currentLineSpaces' = 0
    /\ currentLineEffectiveAlignment' = textAlign

\* forEach iteration on a newline (lines 424-435)
WrapNewline ==
    /\ pc = "wrap"
    /\ pos < Len(segments)
    /\ LET segment == segments[pos + 1]
       IN  /\ segment.char = "\n"
           /\ lines' = ProcessLine(lines, currentLineSegments, currentLineMetricsWidth,
                                   currentLineMaxHeight, currentLineSpaces,
                                   AlignmentAfter(segment))
           /\ ResetLine
    /\ pos' = pos + 1
    /\ UNCHANGED <<segments, targetWidth, placed, currentY, pc>>
    /\ UNCHANGED outputVars
    /\ UNCHANGED editorVars

\* forEach iteration that breaks at the last space (lines 424-472, 479-484)
WrapBreakAtSpace ==
    /\ pc = "wrap"
    /\ pos < Len(segments)
    /\ LET segment == segments[pos + 1]
           lastSpaceIndex == LastSpaceIndex(currentLineSegments)
           kept == KeptSegments(currentLineSegments, lastSpaceIndex)
           segmentsToMove == SegmentsToMove(currentLineSegments, lastSpaceIndex)
       IN  /\ segment.char # "\n"
           /\ Overflows(segment)
           /\ lastSpaceIndex # -1
           /\ lines' = ProcessLine(lines, kept, SumWidth(kept), MaxHeightOf(kept),
                                   CountSpaces(kept), AlignmentAfter(segment))
           /\ AppendSegment(segmentsToMove, SumWidth(segmentsToMove),
                            MaxHeightOf(segmentsToMove), CountSpaces(segmentsToMove),
                            IF Len(segmentsToMove) > 0
                            THEN segmentsToMove[1].style.textAlign
                            ELSE textAlign,
                            segment)
    /\ pos' = pos + 1
    /\ UNCHANGED <<segments, targetWidth, placed, currentY, pc>>
    /\ UNCHANGED outputVars
    /\ UNCHANGED editorVars

\* forEach iteration that breaks with no space to break at
\* (lines 424-447, 473-476, 479-484)
WrapForceBreak ==
    /\ pc = "wrap"
    /\ pos < Len(segments)
    /\ LET segment == segments[pos + 1]
       IN  /\ segment.char # "\n"
           /\ Overflows(segment)
           /\ LastSpaceIndex(currentLineSegments) = -1
           /\ lines' = ProcessLine(lines, currentLineSegments, currentLineMetricsWidth,
                                   currentLineMaxHeight, currentLineSpaces,
                                   AlignmentAfter(segment))
           /\ AppendSegment(<<>>, 0, 0, 0, textAlign, segment)
    /\ pos' = pos + 1
    /\ UNCHANGED <<segments, targetWidth, placed, currentY, pc>>
    /\ UNCHANGED outputVars
    /\ UNCHANGED editorVars

\* forEach iteration that only appends (lines 424-439, 479-484)
WrapAppend ==
    /\ pc = "wrap"
    /\ pos < Len(segments)
    /\ LET segment == segments[pos + 1]
       IN  /\ segment.char # "\n"
           /\ ~Overflows(segment)
           /\ AppendSegment(currentLineSegments, currentLineMetricsWidth,
                            currentLineMaxHeight, currentLineSpaces,
                            AlignmentAfter(segment), segment)
    /\ pos' = pos + 1
    /\ UNCHANGED <<segments, targetWidth, lines, placed, currentY, pc>>
    /\ UNCHANGED outputVars
    /\ UNCHANGED editorVars

\* the processLine after the loop and the return (lines 486-488)
WrapFinish ==
    /\ pc = "wrap"
    /\ pos = Len(segments)
    /\ lines' = ProcessLine(lines, currentLineSegments, currentLineMetricsWidth,
                            currentLineMaxHeight, currentLineSpaces,
                            currentLineEffectiveAlignment)
    /\ ResetLine
    /\ pc' = "draw"
    /\ UNCHANGED <<segments, targetWidth, pos, placed, currentY>>
    /\ UNCHANGED outputVars
    /\ UNCHANGED editorVars

\* the condition without its test for a non-space segment
JustifyAppliesAnyLine(lineData) ==
    /\ lineData.effectiveAlignment = "justify"
    /\ lineData.spaces > 0

\* the condition of the justify branch (lines 523-527)
JustifyApplies(lineData) ==
    /\ lineData.effectiveAlignment = "justify"
    /\ lineData.spaces > 0
    /\ \E i \in 1..Len(lineData.segments) : lineData.segments[i].char # " "

\* x-offsets are fractions (the source divides by 2 and by lineData.spaces):
\* a placed line is [den, xs] and its i-th segment is drawn at xs[i] / den
OffsetDen(lineData) ==
    IF lineData.effectiveAlignment = "center" THEN 2
    ELSE IF lineData.effectiveAlignment = "right" THEN 1
    ELSE IF JustifyApplies(lineData) THEN lineData.spaces
    ELSE 1

\* drawX with the centred line shifted by the whole free width
DrawXWholeShift(lineData) ==
    IF lineData.effectiveAlignment = "center"
    THEN 2 * (targetWidth - lineData.metricsWidth)
    ELSE IF lineData.effectiveAlignment = "right"
    THEN targetWidth - lineData.metricsWidth
    ELSE 0

\* drawX (lines 515-522) times the line's denominator; 0 in the justify branch,
\* whose tempX starts at initialPadding (line 530)
DrawX(lineData) ==
    IF lineData.effectiveAlignment = "center"
    THEN targetWidth - lineData.metricsWidth
    ELSE IF lineData.effectiveAlignment = "right"
    THEN targetWidth - lineData.metricsWidth
    ELSE 0

\* extraSpacePerGap (line 529) times the line's denominator; the default
\* drawing (lines 558-577) adds nothing after a space
ExtraSpacePerGap(lineData) ==
    IF lineData.effectiveAlignment = "center" THEN 0
    ELSE IF lineData.effectiveAlignment = "right" THEN 0
    ELSE IF JustifyApplies(lineData) THEN targetWidth - lineData.metricsWidth
    ELSE 0

\* the tempX each segment is drawn at (lines 531-552 and 558-577)
RECURSIVE Offsets(_, _, _, _)
Offsets(segs, tempX, den, extra) ==
    IF segs = <<>> THEN <<>>
    ELSE <<tempX>> \o
         Offsets(Tail(segs),
                 tempX + Head(segs).width * den
                       + (IF Head(segs).char = " " THEN extra ELSE 0),
                 den, extra)

PlaceLine(lineData) ==
    [den |-> OffsetDen(lineData),
     xs  |-> Offsets(lineData.segments, DrawX(lineData), OffsetDen(lineData),
                     ExtraSpacePerGap(lineData))]

\* lines 553 and 578: what currentY advances by
LineAdvance(lineData) ==
    IF lineData.maxHeight # 0 THEN lineData.maxHeight
    ELSE getDefaultStyle.fontSize * lineHeight

RECURSIVE SumAdvance(_)
SumAdvance(ls) ==
    IF ls = <<>> THEN 0 ELSE LineAdvance(Head(ls)) + SumAdvance(Tail(ls))

\* linesData.forEach (lines 514-579): every line drawn
RenderLines ==
    /\ pc = "draw"
    /\ placed' = [i \in 1..Len(lines) |-> PlaceLine(lines[i])]
    /\ currentY' = SumAdvance(lines)
    /\ pc' = "done"
    /\ UNCHANGED <<segments, targetWidth, pos, lines, currentLineSegments,
                   currentLineMetricsWidth, currentLineMaxHeight, currentLineSpaces,
                   currentLineEffectiveAlignment>>
    /\ UNCHANGED outputVars
    /\ UNCHANGED editorVars

\* renderTextOnCanvas about to lay out (lines 399-404, 498-508) for some
\* target width and document alignment
LayoutStart ==
    /\ text = <<>>
    /\ textAlign \in DocAligns
    /\ fontSize = 14
    /\ styledRanges = <<>>
    /\ selectedRange = NULL
    /\ editingRangeId = NullId
    /\ history = <<[text |-> <<>>, styledRanges |-> <<>>]>>
    /\ historyIndex = 0
    /\ clock = 0
    /\ targetWidth \in TargetWidths
    /\ pos = 0
    /\ lines = <<>>
    /\ currentLineSegments = <<>>
    /\ currentLineMetricsWidth = 0
    /\ currentLineMaxHeight = 0
    /\ currentLineSpaces = 0
    /\ currentLineEffectiveAlignment = textAlign
    /\ placed = <<>>
    /\ currentY = 0
    /\ pc = "wrap"
    /\ pixels = {}
    /\ canvas = NULL

\* a layout pass about to start on some segments, for the preview (line 669)
LayoutInit ==
    /\ LayoutStart
    /\ segments \in SeqsUpTo(SegmentSet, MaxSegs)
    /\ forExport = FALSE

LayoutNext ==
    \/ WrapNewline
    \/ WrapBreakAtSpace
    \/ WrapForceBreak
    \/ WrapAppend
    \/ WrapFinish
    \/ RenderLines

LayoutSpec == LayoutInit /\ [][LayoutNext]_vars

(***************************************************************************)
(* The rest of renderTextOnCanvas (lines 498-505, 581-661): the scan of    *)
(* offscreenCanvas for the bounding box of what was drawn, and the output  *)
(* canvas.  Columns, rows and canvas sizes are whole pixels; currentY and  *)
(* the vertical arguments of drawImage are tenths of a pixel.              *)
(***************************************************************************)

\* offscreenCanvas.width (line 504)
OffscreenWidth == targetWidth + 200

\* offscreenCanvas.height (line 505)
OffscreenHeight == 5000

\* a length in tenths of a pixel given as a canvas size or as a size of
\* getImageData: both are integers of the platform, the fraction is dropped
ToPixels(tenths) == tenths \div 10

\* imageData.width, imageData.height (line 583)
ImageDataWidth == OffscreenWidth
ImageDataHeight == ToPixels(currentY + 100)

\* pixels fillText and fillRect (lines 546-548, 571-576) may leave
\* non-transparent: some on the first line, one in the last column of the
\* canvas, one on a second line; only rows of drawn lines have any
PixelCandidates ==
    {p \in {<<1, 5>>, <<targetWidth + 199, 20>>, <<2, 30>>} : p[2] * 10 < currentY}

SetMin(S) == CHOOSE x \in S : \A y \in S : x <= y
SetMax(S) == CHOOSE x \in S : \A y \in S : x >= y

\* the pixels the loops of lines 592-603 find with alpha > 0
ScannedPixels ==
    {p \in pixels : p[1] < ImageDataWidth /\ p[2] < ImageDataHeight}

hasContent == ScannedPixels # {}

\* lines 585-588 and 596-599
minX == SetMin({OffscreenWidth} \cup {p[1] : p \in ScannedPixels})
minY == SetMin({OffscreenHeight} \cup {p[2] : p \in ScannedPixels})
maxX == SetMax({0} \cup {p[1] : p \in ScannedPixels})
maxY == SetMax({0} \cup {p[2] : p \in ScannedPixels})

\* the width of the box taken as the distance of its end columns
ContentExtentShort(lo, hi) == hi - lo

\* lines 617-618: maxX - minX + 1, maxY - minY + 1
ContentExtent(lo, hi) == hi - lo + 1

contentWidth == ContentExtent(minX, maxX)
contentHeight == ContentExtent(minY, maxY)

\* the preview height without the padding below the text
PreviewHeightTopPadding(y) == ToPixels(y + 100)

\* canvas.height = currentY + 20 (line 640)
PreviewHeight(y) == ToPixels(y + 200)

\* the drawing is over and getImageData reads what it left (lines 581-603)
ScanPixels ==
    /\ pc = "done"
    /\ pixels' \in SUBSET PixelCandidates
    /\ pc' = "scanned"
    /\ UNCHANGED <<forExport, canvas>>
    /\ UNCHANGED <<segments, targetWidth, pos, lines, currentLineSegments,
                   currentLineMetricsWidth, currentLineMaxHeight, currentLineSpaces,
                   currentLineEffectiveAlignment, placed, currentY>>
    /\ UNCHANGED editorVars

\* lines 606-615: nothing found
EmptyOutput ==
    /\ pc = "scanned"
    /\ ~hasContent
    /\ canvas' = [width  |-> IF forExport THEN 4 ELSE targetWidth + 20,
                  height |-> IF forExport THEN 4 ELSE 200,
                  fill   |-> IF forExport THEN "transparent" ELSE "backgroundColor",
                  image  |-> NULL]
    /\ pc' = "rendered"
    /\ UNCHANGED <<forExport, pixels>>
    /\ UNCHANGED <<segments, targetWidth, pos, lines, currentLineSegments,
                   currentLineMetricsWidth, currentLineMaxHeight, currentLineSpaces,
                   currentLineEffectiveAlignment, placed, currentY>>
    /\ UNCHANGED editorVars

\* lines 621-637: the canvas cropped to the bounding box
ExportOutput ==
    /\ pc = "scanned"
    /\ hasContent
    /\ forExport
    /\ canvas' = [width  |-> contentWidth + 4,
                  height |-> contentHeight + 4,
                  fill   |-> "transparent",
                  image  |-> [sx |-> minX, sy |-> minY * 10,
                              sw |-> contentWidth, sh |-> contentHeight * 10,
                              dx |-> 2, dy |-> 20]]
    /\ pc' = "rendered"
    /\ UNCHANGED <<forExport, pixels>>
    /\ UNCHANGED <<segments, targetWidth, pos, lines, currentLineSegments,
                   currentLineMetricsWidth, currentLineMaxHeight, currentLineSpaces,
                   currentLineEffectiveAlignment, placed, currentY>>
    /\ UNCHANGED editorVars

\* lines 638-660: the preview canvas
PreviewOutput ==
    /\ pc = "scanned"
    /\ hasContent
    /\ ~forExport
    /\ canvas' = [width  |-> targetWidth + 20,
                  height |-> PreviewHeight(currentY),
                  fill   |-> "backgroundColor",
                  image  |-> [sx |-> 0, sy |-> 0,
                              sw |-> targetWidth, sh |-> currentY,
                              dx |-> 10, dy |-> 100]]
    /\ pc' = "rendered"
    /\ UNCHANGED <<forExport, pixels>>
    /\ UNCHANGED <<segments, targetWidth, pos, lines, currentLineSegments,
                   currentLineMetricsWidth, currentLineMaxHeight, currentLineSpaces,
                   currentLineEffectiveAlignment, placed, currentY>>
    /\ UNCHANGED editorVars

\* a call of renderTextOnCanvas: the preview effect (line 669) or the export
\* (line 698)
RenderInit ==
    /\ LayoutStart
    /\ segments \in SeqsUpTo(SegmentSet, MaxRenderSegs)
    /\ forExport \in BOOLEAN

RenderNext ==
    \/ WrapNewline
    \/ WrapBreakAtSpace
    \/ WrapForceBreak
    \/ WrapAppend
    \/ WrapFinish
    \/ RenderLines
    \/ ScanPixels
    \/ EmptyOutput
    \/ ExportOutput
    \/ PreviewOutput

RenderSpec == RenderInit /\ [][RenderNext]_vars

(***************************************************************************)
(* Properties.                                                             *)
(***************************************************************************)

\* a step of applyStyleToSelection that got past line 236: no other handler
\* reads the clock
ApplyStep == clock' # clock

RangeSet(ranges) == {ranges[i] : i \in 1..Len(ranges)}

Overlaps(range, sel) == range.start < sel.end /\ sel.start < range.end

Contains(range, p) == range.start <= p /\ p < range.end

NonOverlapping(ranges) ==
    \A i, j \in 1..Len(ranges) :
        i # j => \/ ranges[i].end <= ranges[j].start
                 \/ ranges[j].end <= ranges[i].start

\* C1: in every reachable state of the editor the style ranges of the
\* document are pairwise non-overlapping: for distinct r1, r2,
\* r1.end <= r2.start or r2.end <= r1.start.
C1_RangesNonOverlapping == NonOverlapping(styledRanges)

\* two ranges held at once, restored by an undo
C1_Witness ==
    /\ Len(styledRanges) = 2
    /\ historyIndex < Len(history) - 1

\* C2: a style application on the selection [s, e) removes in full every
\* range overlapping [s, e), keeps every other range as it was and in place,
\* and adds exactly one range [s, e) with the style applied.
C2_ApplyReplacesOverlapping ==
    [][ApplyStep =>
          LET sel == selectedRange
              kept == SelectSeq(styledRanges, LAMBDA r : ~Overlaps(r, sel))
              new == styledRanges'[Len(styledRanges')]
          IN  /\ sel.start < sel.end
              /\ Len(styledRanges') = Len(kept) + 1
              /\ SubSeq(styledRanges', 1, Len(kept)) = kept
              /\ new.start = sel.start
              /\ new.end = sel.end
              /\ new.style = getDefaultStyle
              /\ \A i \in 1..Len(styledRanges) :
                     Overlaps(styledRanges[i], sel) =>
                         styledRanges[i] \notin RangeSet(styledRanges')
    ]_vars

\* the second application replaced the overlapping first one: the only range
\* left is the second, and it spans more than one character
C2_Witness ==
    /\ clock = 2
    /\ Len(styledRanges) = 1
    /\ styledRanges[1].id = "2"
    /\ styledRanges[1].end - styledRanges[1].start > 1

\* C3: every line wrapStyledSegments returns is at most targetWidth wide,
\* unless one of its segments alone is wider than targetWidth.
C3_LineWithinTargetWidth ==
    pc \in {"draw", "done"} =>
        \A i \in 1..Len(lines) :
            \/ lines[i].metricsWidth <= targetWidth
            \/ \E k \in 1..Len(lines[i].segments) :
                   lines[i].segments[k].width > targetWidth

NonNewline(segs) == SelectSeq(segs, LAMBDA sg : sg.char # "\n")

\* the stretches of segments between newlines, in order
RECURSIVE Stretches(_)
Stretches(segs) ==
    LET breaks == {k \in 1..Len(segs) : segs[k].char = "\n"}
    IN  IF breaks = {} THEN <<segs>>
        ELSE LET k == CHOOSE b \in breaks : \A c \in breaks : b <= c
             IN  <<SubSeq(segs, 1, k - 1)>> \o Stretches(SubSeq(segs, k + 1, Len(segs)))

NoOverflow ==
    \A i \in 1..Len(Stretches(segments)) :
        SumWidth(Stretches(segments)[i]) <= targetWidth

\* C4: for a text in which no line overflows, wrapStyledSegments returns
\* (number of newlines + 1) lines, the i-th holding exactly the segments
\* between the (i-1)-th and the i-th newline, empty stretches included.
\* Stated for the texts that have a character to draw; the empty document
\* is left aside.
C4_OneLinePerStretch ==
    (pc \in {"draw", "done"} /\ NoOverflow /\ NonNewline(segments) # <<>>) =>
        /\ Len(lines) = Len(Stretches(segments))
        /\ \A i \in 1..Len(lines) : lines[i].segments = Stretches(segments)[i]

\* C5: in every reachable state of the editor every style range satisfies
\* 0 <= start < end <= length of the current text.
C5_RangesWithinText ==
    \A i \in 1..Len(styledRanges) :
        /\ 0 <= styledRanges[i].start
        /\ styledRanges[i].start < styledRanges[i].end
        /\ styledRanges[i].end <= Len(text)

ValidRange(sel, t) ==
    /\ 0 <= sel.start
    /\ sel.start < sel.end
    /\ sel.end <= Len(t)

\* C6: a style application whose selection has start >= end, or an end
\* outside [0, length of the current text], creates no range and leaves the
\* ranges as they are.
C6_InvalidRangeRejected ==
    [][(ApplyStep /\ ~ValidRange(selectedRange, text)) =>
          styledRanges' = styledRanges]_vars

\* the ranges reordered by the permutation f of their indices
Permuted(ranges, f) == [i \in 1..Len(ranges) |-> ranges[f[i]]]

\* C7: getStyleForPosition(p) is the style of the first range in stored
\* order that contains p, the default style when none does; at most one range
\* contains p, and the result is the same in whatever order the ranges are
\* stored.
C7_ResolverSingleStyle ==
    \A p \in 0..MaxLen :
        LET hits == {i \in 1..Len(styledRanges) : Contains(styledRanges[i], p)}
        IN  /\ Cardinality(hits) <= 1
            /\ hits = {} => getStyleForPosition(p) = getDefaultStyle
            /\ \A i \in hits :
                   (\A j \in hits : i <= j) =>
                       getStyleForPosition(p) = styledRanges[i].style
            /\ \A f \in Permutations(1..Len(styledRanges)) :
                   LET r == FindRange(Permuted(styledRanges, f), p)
                   IN  (IF r # NULL THEN r.style ELSE getDefaultStyle)
                           = getStyleForPosition(p)

\* two ranges with different styles, the second one resolving a position
C7_Witness ==
    /\ Len(styledRanges) = 2
    /\ styledRanges[1].style # styledRanges[2].style
    /\ \E p \in 0..(Len(text) - 1) : Contains(styledRanges[2], p)

RECURSIVE Flatten(_)
Flatten(ls) ==
    IF ls = <<>> THEN <<>> ELSE Head(ls).segments \o Flatten(Tail(ls))

\* C8: for every segment sequence and target width the pass always has a
\* next step until it has returned, and the segments of the returned lines,
\* concatenated in order, are the input without its newline segments (while
\* the pass runs: the lines so far and the accumulator hold the consumed
\* input without its newlines).
C8_WrapKeepsEverySegment ==
    /\ pc = "wrap" =>
           /\ pos <= Len(segments)
           /\ ENABLED LayoutNext
           /\ Flatten(lines) \o currentLineSegments = NonNewline(Take(segments, pos))
    /\ pc \in {"draw", "done"} => Flatten(lines) = NonNewline(segments)

\* a returned layout of several lines, one of them moved past a space, with
\* a segment wider than the target width in the input
C8_Witness ==
    /\ pc = "done"
    /\ Len(lines) >= 2
    /\ \E k \in 1..Len(segments) : segments[k].width > targetWidth
    /\ \E i \in 1..(Len(lines) - 1) :
           lines[i].segments[Len(lines[i].segments)].char = " "

JustifyCase(lineData) ==
    /\ lineData.effectiveAlignment = "justify"
    /\ lineData.spaces > 0
    /\ \E k \in 1..Len(lineData.segments) : lineData.segments[k].char # " "

\* C9: on every line drawn with justify alignment that has spaces > 0 and a
\* non-space segment, the x-offset of the last segment plus its width is
\* targetWidth.
C9_JustifiedLineEndsAtTargetWidth ==
    pc = "done" =>
        \A i \in 1..Len(lines) :
            JustifyCase(lines[i]) =>
                LET n == Len(lines[i].segments)
                IN  placed[i].xs[n] + lines[i].segments[n].width * placed[i].den
                        = targetWidth * placed[i].den

\* the x-offset left alignment gives the k-th segment
LeftOffset(segs, k) == SumWidth(SubSeq(segs, 1, k - 1))

\* C10: a line whose effective alignment is justify and which has no space,
\* or no non-space segment, is drawn at the x-offsets of left alignment.
C10_JustifyFallsBackToLeft ==
    pc = "done" =>
        \A i \in 1..Len(lines) :
            (lines[i].effectiveAlignment = "justify" /\ ~JustifyCase(lines[i])) =>
                \A k \in 1..Len(lines[i].segments) :
                    placed[i].xs[k] = placed[i].den * LeftOffset(lines[i].segments, k)

\* a drawn justify line of spaces only, narrower than the target width
C10_Witness ==
    /\ pc = "done"
    /\ \E i \in 1..Len(lines) :
           /\ lines[i].effectiveAlignment = "justify"
           /\ lines[i].spaces >= 2
           /\ lines[i].spaces = Len(lines[i].segments)
           /\ lines[i].metricsWidth < targetWidth

\* C11: on a drawn line with left alignment the x-offset of each segment is
\* the sum of the widths of the segments before it; with right alignment it
\* is that sum plus (targetWidth - metricsWidth); with center alignment it is
\* that sum plus (targetWidth - metricsWidth) / 2.
C11_AlignedOffsets ==
    pc = "done" =>
        \A i \in 1..Len(lines) :
            \A k \in 1..Len(lines[i].segments) :
                LET cumulative == LeftOffset(lines[i].segments, k)
                    free == targetWidth - lines[i].metricsWidth
                    den == placed[i].den
                    x == placed[i].xs[k]
                IN  /\ lines[i].effectiveAlignment = "left" => x = den * cumulative
                    /\ lines[i].effectiveAlignment = "right" =>
                           x = den * (cumulative + free)
                    /\ lines[i].effectiveAlignment = "center" =>
                           2 * x = den * (2 * cumulative + free)

\* a drawn layout with a centred line and a right-aligned line, both of
\* several segments and narrower than the target width
C11_Witness ==
    /\ pc = "done"
    /\ \E i, j \in 1..Len(lines) :
           /\ lines[i].effectiveAlignment = "center"
           /\ lines[i].metricsWidth < targetWidth
           /\ lines[j].effectiveAlignment = "right"
           /\ lines[j].metricsWidth < targetWidth

\* the alignment the segments of a line give it on their own: the alignment
\* of the first segment that differs from the document default, else the
\* default
AlignmentFromSegments(segs) ==
    LET differing == {k \in 1..Len(segs) : segs[k].style.textAlign # textAlign}
    IN  IF differing = {} THEN textAlign
        ELSE segs[CHOOSE k \in differing : \A j \in differing : k <= j].style.textAlign

\* C12: the effective alignment of every returned line is the alignment of
\* the first segment on that line whose style alignment differs from the
\* document default, the document default when there is none; no segment off
\* the line (the segment that triggered the break, a newline) changes it.
C12_AlignmentFromOwnSegments ==
    pc \in {"draw", "done"} =>
        \A i \in 1..Len(lines) :
            lines[i].effectiveAlignment = AlignmentFromSegments(lines[i].segments)

\* C13: in Export mode, when a non-transparent pixel was drawn, the output
\* canvas is (bounding box width + 4) by (bounding box height + 4),
\* transparent, with the content of the bounding box copied at (2, 2); when
\* none was drawn the output is 4 by 4 and transparent.
C13_ExportCrop ==
    (pc = "rendered" /\ forExport) =>
        IF pixels # {}
        THEN LET left == SetMin({p[1] : p \in pixels})
                 right == SetMax({p[1] : p \in pixels})
                 top == SetMin({p[2] : p \in pixels})
                 bottom == SetMax({p[2] : p \in pixels})
                 boundingBoxWidth == right - left + 1
                 boundingBoxHeight == bottom - top + 1
             IN  /\ canvas.width = boundingBoxWidth + 4
                 /\ canvas.height = boundingBoxHeight + 4
                 /\ canvas.fill = "transparent"
                 /\ canvas.image = [sx |-> left, sy |-> top * 10,
                                    sw |-> boundingBoxWidth,
                                    sh |-> boundingBoxHeight * 10,
                                    dx |-> 2, dy |-> 20]
        ELSE canvas = [width |-> 4, height |-> 4, fill |-> "transparent",
                       image |-> NULL]

\* an export of two lines with pixels on both, the box not starting at the
\* origin
C13_Witness ==
    /\ pc = "rendered"
    /\ forExport
    /\ Len(lines) = 2
    /\ pixels = {<<1, 5>>, <<2, 30>>}
    /\ canvas.width = 6
    /\ canvas.height = 30

\* the heights of the laid-out lines added up, in tenths of a pixel
RECURSIVE SumHeights(_)
SumHeights(ls) ==
    IF ls = <<>> THEN 0 ELSE Head(ls).maxHeight + SumHeights(Tail(ls))

\* the copy of the preview: the targetWidth-wide region of the given height
\* at (10, 10)
PreviewCopy(height) ==
    [sx |-> 0, sy |-> 0, sw |-> targetWidth, sh |-> height, dx |-> 10, dy |-> 100]

\* C14 as stated: in Preview mode the output canvas is targetWidth + 20 wide
\* for every document, and when a non-transparent pixel was drawn its height
\* is exactly the sum of the heights of the laid-out lines plus 20, with the
\* full targetWidth-wide drawn region copied at (10, 10) over the opaque
\* background colour.
C14_PreviewSizeExact ==
    (pc = "rendered" /\ ~forExport) =>
        /\ canvas.width = targetWidth + 20
        /\ pixels # {} =>
               /\ canvas.height * 10 = SumHeights(lines) + 200
               /\ canvas.fill = "backgroundColor"
               /\ canvas.image = PreviewCopy(SumHeights(lines))

\* C14 amended: as above, the height being the whole pixels of the sum of
\* the line heights plus 20 (a sum of 22.5 gives a canvas 42 pixels high).
C14_PreviewSizeWholePixels ==
    (pc = "rendered" /\ ~forExport) =>
        /\ canvas.width = targetWidth + 20
        /\ pixels # {} =>
               /\ canvas.height * 10 <= SumHeights(lines) + 200
               /\ canvas.height * 10 > SumHeights(lines) + 200 - 10
               /\ canvas.fill = "backgroundColor"
               /\ canvas.image = PreviewCopy(SumHeights(lines))

\* a preview of two lines, one of them 22.5 pixels high, with a pixel drawn
C14_Witness ==
    /\ pc = "rendered"
    /\ ~forExport
    /\ pixels # {}
    /\ Len(lines) = 2
    /\ SumHeights(lines) = 435
    /\ canvas.height = 63

\* the bottom of the i-th drawn line, in tenths of a pixel
LineBottom(i) == SumAdvance(SubSeq(lines, 1, i))

\* C15: every segment of every line is drawn at an x-offset >= 0 with its
\* right edge <= the width of the working surface (targetWidth + 200), on a
\* line whose bottom is <= its height (5000), and inside the region scanned
\* for the bounding box.  Stated for the inputs none of whose segments is
\* wider than the target width on its own.
C15_SurfaceHoldsEverySegment ==
    (pc = "done" /\ \A n \in 1..Len(segments) : segments[n].width <= targetWidth) =>
        \A i \in 1..Len(lines) :
            /\ LineBottom(i) <= OffscreenHeight * 10
            /\ LineBottom(i) <= ImageDataHeight * 10
            /\ \A k \in 1..Len(lines[i].segments) :
                   LET den == placed[i].den
                       x == placed[i].xs[k]
                       rightEdge == x + lines[i].segments[k].width * den
                   IN  /\ x >= 0
                       /\ rightEdge <= OffscreenWidth * den
                       /\ rightEdge <= ImageDataWidth * den

\* C16: for a non-empty text without newlines whose segment widths add up
\* to at most targetWidth, wrapStyledSegments returns exactly one line,
\* holding all the segments in order, whose spaces field is the number of
\* space characters of the text ("a a": one line of 3 segments, 1 space).
C16_FittingTextIsOneLine ==
    (/\ pc \in {"draw", "done"}
     /\ segments # <<>>
     /\ NonNewline(segments) = segments
     /\ SumWidth(segments) <= targetWidth) =>
        /\ Len(lines) = 1
        /\ lines[1].segments = segments
        /\ lines[1].spaces =
               Cardinality({k \in 1..Len(segments) : segments[k].char = " "})

\* "a a" returned as one line that fills the target width exactly
C16_Witness ==
    /\ pc = "done"
    /\ Len(segments) = 3
    /\ segments[1].char = "a"
    /\ segments[2].char = " "
    /\ segments[3].char = "a"
    /\ SumWidth(segments) = targetWidth
    /\ Len(lines) = 1
    /\ lines[1].spaces = 1

\* a non-newline segment arriving at a non-empty accumulator it overflows
OverflowArrives ==
    /\ pc = "wrap"
    /\ pos < Len(segments)
    /\ segments[pos + 1].char # "\n"
    /\ Overflows(segments[pos + 1])

\* a forEach iteration that breaks at a word boundary
BreakAtSpaceStep ==
    /\ OverflowArrives
    /\ LastSpaceIndex(currentLineSegments) # -1
    /\ pos' = pos + 1

\* C17: when a word-boundary break starts a new line, the initial effective
\* alignment of the new line is the style alignment of its first segment:
\* the first moved segment, or the incoming segment when none is moved (every
\* style carries an alignment, so the fallback to the default never applies).
C17_NewLineAlignedByFirstSegment ==
    [][BreakAtSpaceStep =>
          currentLineEffectiveAlignment' = currentLineSegments'[1].style.textAlign
    ]_vars

\* the 0-based index of the last space among segs
LastSpaceOf(segs) ==
    SetMax({i \in 0..(Len(segs) - 1) : segs[i + 1].char = " "})

\* C18: when a non-newline segment arrives at a non-empty accumulator it
\* overflows and the accumulator holds a space, with k the index of the last
\* accumulated space, one line is finalized, made of the accumulated segments
\* 0..k, and the next line begins with the accumulated segments after k,
\* as they were and in order, followed by the incoming segment.
C18_BreakAtLastSpace ==
    [][BreakAtSpaceStep =>
          LET k == LastSpaceOf(currentLineSegments)
              n == Len(currentLineSegments)
          IN  /\ Len(lines') = Len(lines) + 1
              /\ SubSeq(lines', 1, Len(lines)) = lines
              /\ lines'[Len(lines')].segments = SubSeq(currentLineSegments, 1, k + 1)
              /\ lines'[Len(lines')].segments[k + 1].char = " "
              /\ currentLineSegments' =
                     SubSeq(currentLineSegments, k + 2, n) \o <<segments[pos + 1]>>
    ]_vars

\* " ", "a" accumulated at target width 3 and a segment of width 2 arrived:
\* the line " " is finalized and "a" moved in front of the incoming segment
C18_Witness ==
    /\ pc = "wrap"
    /\ targetWidth = 3
    /\ pos = 3
    /\ segments[1].char = " " /\ segments[1].width = 1
    /\ segments[2].char = "a" /\ segments[2].width = 1
    /\ segments[3].char = "a" /\ segments[3].width = 2
    /\ Len(lines) = 1
    /\ lines[1].segments = <<segments[1]>>
    /\ currentLineSegments = <<segments[2], segments[3]>>

\* a forEach iteration that breaks where no space was accumulated
ForceBreakStep ==
    /\ OverflowArrives
    /\ \A i \in 1..Len(currentLineSegments) : currentLineSegments[i].char # " "
    /\ pos' = pos + 1

\* C19: when a non-newline segment arrives at a non-empty accumulator it
\* overflows and the accumulator holds no space, the accumulated segments are
\* finalized unchanged as one line and the incoming segment alone starts the
\* next line.
C19_ForcedBreakMovesNothing ==
    [][ForceBreakStep =>
          /\ Len(lines') = Len(lines) + 1
          /\ SubSeq(lines', 1, Len(lines)) = lines
          /\ lines'[Len(lines')].segments = currentLineSegments
          /\ currentLineSegments' = <<segments[pos + 1]>>
    ]_vars

\* "aa" of width 3 accumulated at target width 3 and a third "a" arrived:
\* the line "aa" is finalized and the third "a" is alone on the next
C19_Witness ==
    /\ pc = "wrap"
    /\ targetWidth = 3
    /\ pos = 3
    /\ \A i \in 1..3 : segments[i].char = "a"
    /\ segments[1].width + segments[2].width = 3
    /\ Len(lines) = 1
    /\ lines[1].segments = <<segments[1], segments[2]>>
    /\ currentLineSegments = <<segments[3]>>

\* C20: every line of wrapStyledSegments, returned or finalized so far,
\* holds at least one segment and no newline segment.
C20_LinesNonEmptyWithoutNewline ==
    \A i \in 1..Len(lines) :
        /\ Len(lines[i].segments) >= 1
        /\ \A k \in 1..Len(lines[i].segments) : lines[i].segments[k].char # "\n"

\* a newline met on an empty accumulator, a line finalized by a newline and
\* an empty trailing accumulator: one line returned
C20_Witness ==
    /\ pc = "done"
    /\ Len(segments) = 3
    /\ segments[1].char = "\n"
    /\ segments[2].char = "a"
    /\ segments[3].char = "\n"
    /\ Len(lines) = 1

\* the widths of segs added up
RECURSIVE WidthTotal(_)
WidthTotal(segs) ==
    IF segs = <<>> THEN 0
    ELSE WidthTotal(SubSeq(segs, 1, Len(segs) - 1)) + segs[Len(segs)].width

\* C21: for every line of wrapStyledSegments, however it was finalized,
\* metricsWidth is the sum of the widths of its segments, spaces is the
\* number of its space segments and maxHeight is the largest
\* fontSize x lineHeight among its segments.
C21_AggregatesAgreeWithSegments ==
    \A i \in 1..Len(lines) :
        LET segs == lines[i].segments
        IN  /\ lines[i].metricsWidth = WidthTotal(segs)
            /\ lines[i].spaces = Cardinality({k \in 1..Len(segs) : segs[k].char = " "})
            /\ lines[i].maxHeight =
                   SetMax({0} \cup {segs[k].style.fontSize * lineHeight : k \in 1..Len(segs)})

\* a returned layout whose first line was finalized by a word-boundary break
\* with a taller segment before its closing space, the second by the end of
\* the input
C21_Witness ==
    /\ pc = "done"
    /\ NonNewline(segments) = segments
    /\ Len(lines) = 2
    /\ Len(lines[1].segments) = 2
    /\ lines[1].segments[1].style.fontSize = 15
    /\ lines[1].segments[2].style.fontSize = 14
    /\ lines[1].segments[2].char = " "
    /\ lines[1].maxHeight = 225

\* a step of handleTextChange (typing, cut, paste) or of loadFile: the only
\* steps that change an existing history
TextChangeStep == Len(history) > 0 /\ history' # history

\* C22: after every text change, the first one made to the initial document
\* included, undo is enabled and the entry it restores (the one before the
\* new position, lines 268-271) holds the text displayed just before the
\* change.
C22_UndoRestoresPreviousText ==
    [][TextChangeStep =>
          /\ historyIndex' > 0
          /\ history'[(historyIndex' - 1) + 1].text = text
    ]_vars

\* a step of undo past its guard: no other handler lowers historyIndex
UndoStep == historyIndex' = historyIndex - 1

\* C23: after every undo, redo is enabled and the entry it restores (the one
\* after the new position, lines 285-289) holds the text and the set of
\* style ranges of the state the undo was made in, the ranges applied,
\* edited or removed since the last text change included.
C23_UndoRedoRoundTrip ==
    [][UndoStep =>
          /\ historyIndex' < Len(history') - 1
          /\ history'[(historyIndex' + 1) + 1].text = text
          /\ RangeSet(history'[(historyIndex' + 1) + 1].styledRanges)
                 = RangeSet(styledRanges)
    ]_vars

\* C24: in every reachable state of the editor editingRangeId is null or the
\* id of a range of styledRanges.
C24_EditedRangeExists ==
    editingRangeId = NullId \/ editingRangeId \in RangeIds(styledRanges)

\* C25: once the initial history entry exists, the history holds between 1
\* and 50 entries and 0 <= historyIndex <= Len(history) - 1 in every state
\* reached by text changes, undo and redo; right after a text change
\* historyIndex is the last index and the last entry holds the current text.
C25_HistoryBounds ==
    [][/\ Len(history') >= 1
       /\ Len(history') <= 50
       /\ 0 <= historyIndex'
       /\ historyIndex' <= Len(history') - 1
       /\ TypeChar =>
              /\ historyIndex' = Len(history') - 1
              /\ history'[Len(history')].text = text'
    ]_vars

\* the history at its limit with the initial entry dropped, after an undo
C25_Witness ==
    /\ Len(history) = 50
    /\ history[1].text # <<>>
    /\ historyIndex = 48

====
